---- MODULE Spec2Model ----
(***************************************************************************)
(* Model of the concurrent crawl engine of main.py: class Crawler (the     *)
(* frontier queue, the worker threads, the visited mirror, the sqlite      *)
(* tables `visited` and `links`, and crawl()'s start / wait / join / close *)
(* sequence), with the link extractor it calls.                            *)
(*                                                                         *)
(* One action is one atomic step of a thread: a statement that touches     *)
(* shared state (the queue, the mirror, a table, the stop event), together *)
(* with the thread-local statements around it.  db_lock is held only       *)
(* inside is_visited / mark_visited / save_links and the counter update,   *)
(* each of which is therefore one action.                                  *)
(***************************************************************************)
EXTENDS Naturals, Sequences, FiniteSets

\* ---------------------------------------------------------------- bounds
\* The largest max_depth a Crawler is constructed with.
MaxDepth == 2

\* The largest num_threads a Crawler is constructed with.
MaxThreads == 2

\* ---------------------------------------------------------------- the site
URLs == {"A", "B", "C", "D"}

Workers == 1 .. MaxThreads

\* The URLs the user starts a run with.
Seeds == {"A", "D"}

\* An <a href> of a page: the article its path names, its #fragment ("" when
\* it has none), and the namespace of its path.
Href(t, f, n) == [target |-> t, frag |-> f, ns |-> n]

\* The markup fetch_page returns for each URL, as the hrefs of its anchors.
PageHrefs(u) ==
    CASE u = "A" -> {Href("B", "", "wiki"), Href("C", "", "wiki"),
                     Href("D", "", "special")}
      [] u = "B" -> {Href("C", "", "wiki"), Href("A", "History", "wiki")}
      [] u = "C" -> {Href("D", "", "wiki"), Href("A", "", "wiki"),
                     Href("B", "", "other")}
      [] u = "D" -> {Href("B", "Section1", "wiki"),
                     Href("B", "Section2", "wiki")}
      [] OTHER   -> {}

\* The Special: namespace is not excluded.
is_wiki_article_special(h) ==
    IF h.frag # "" THEN FALSE
    ELSE IF h.ns \in {"wiki", "special"} THEN TRUE
    ELSE FALSE

\* WikiLinkParser.is_wiki_article
is_wiki_article(h) ==
    IF h.frag # "" THEN FALSE
    ELSE IF h.ns = "wiki" THEN TRUE
    ELSE FALSE

\* line 24: urljoin(self.base_url, href) keeps the fragment of the href.
urljoin(h) == IF h.frag = "" THEN h.target ELSE h.target \o "#" \o h.frag

\* parse_links / WikiLinkParser.handle_starttag
parse_links(hrefs) == {urljoin(h) : h \in {x \in hrefs : is_wiki_article(x)}}

\* ---------------------------------------------------------------- state
VARIABLES
    max_depth,              \* Crawler.max_depth
    num_threads,            \* Crawler.num_threads
    start_url,              \* Crawler.start_url
    queue,                  \* Crawler.queue: sequence of <<url, depth>>
    unfinished,             \* Queue.unfinished_tasks
    visited,                \* Crawler.visited, the in-memory mirror
    dbVisited,              \* table visited(url PRIMARY KEY, depth)
    dbLinks,                \* table links(url PRIMARY KEY)
    total_links_processed,  \* Crawler.total_links_processed
    stop_event,             \* Crawler.stop_event
    crawl_pc,               \* where crawl() is
    wpc,                    \* where each worker thread is
    cur_url,                \* worker local current_url
    cur_depth,              \* worker local depth
    links,                  \* worker local links
    todo,                   \* links the for loop of line 128 has not reached
    seeds,                  \* history: the seed URLs of the runs so far
    firstCommit,            \* history: per URL, the first mark_visited call
    visited0,               \* history: URLs with a Visited Record at startup
    marks                   \* history: mark_visited calls made in this run

vars == <<max_depth, num_threads, start_url, queue, unfinished, visited,
          dbVisited, dbLinks, total_links_processed, stop_event, crawl_pc,
          wpc, cur_url, cur_depth, links, todo, seeds, firstCommit, visited0,
          marks>>

NoUrl == "none"

\* Positions of a worker at which it holds a dequeued item.
InFlightPcs == {"check", "fetch", "save", "mark", "push"}

InFlight == {w \in Workers : wpc[w] \in InFlightPcs}

\* The keys of the visited table.
VisitedUrls == {r.url : r \in dbVisited}

\* INSERT OR REPLACE: the row of a later call takes the place of the first.
InsertOrReplaceVisited(table, u, d) ==
    {r \in table : r.url # u} \cup {[url |-> u, depth |-> d]}

\* INSERT OR IGNORE INTO visited (url, depth): url is the primary key.
InsertOrIgnoreVisited(table, u, d) ==
    IF \E r \in table : r.url = u THEN table
    ELSE table \cup {[url |-> u, depth |-> d]}

\* The table is emptied before the rows of the call are inserted.
ReplaceLinks(table, ls) == ls

\* The rows are never inserted.
InsertNoLinks(table, ls) == table

\* INSERT OR IGNORE INTO links (url) for every link.
InsertOrIgnoreLinks(table, ls) == table \cup ls

\* Crawler.__init__ with an empty store file (lines 79, 81-88).
NewCrawler ==
    /\ start_url \in Seeds
    /\ queue = << <<start_url, 0>> >>
    /\ unfinished = 1
    /\ visited = {}
    /\ dbVisited = {}
    /\ dbLinks = {}
    /\ total_links_processed = 0
    /\ stop_event = FALSE
    /\ crawl_pc = "start"
    /\ wpc = [w \in Workers |-> "new"]
    /\ cur_url = [w \in Workers |-> NoUrl]
    /\ cur_depth = [w \in Workers |-> 0]
    /\ links = [w \in Workers |-> {}]
    /\ todo = [w \in Workers |-> {}]
    /\ seeds = {start_url}
    /\ firstCommit = {}
    /\ visited0 = {}
    /\ marks = 0

\* Crawler(start_url, max_depth, num_threads) with the largest parameters.
Init ==
    /\ max_depth = MaxDepth
    /\ num_threads = MaxThreads
    /\ NewCrawler

\* ---------------------------------------------------------------- worker()
\* line 111: while not self.stop_event.is_set(), the flag is clear.
EnterGet(w) ==
    /\ wpc[w] = "loop"
    /\ ~stop_event
    /\ wpc' = [wpc EXCEPT ![w] = "get"]
    /\ UNCHANGED <<max_depth, num_threads, start_url, queue, unfinished,
                   visited, dbVisited, dbLinks, total_links_processed,
                   stop_event, crawl_pc, cur_url, cur_depth, links, todo,
                   seeds, firstCommit, visited0, marks>>

\* line 111: the flag is set, the loop ends and the thread exits.
WorkerExit(w) ==
    /\ wpc[w] = "loop"
    /\ stop_event
    /\ wpc' = [wpc EXCEPT ![w] = "exited"]
    /\ UNCHANGED <<max_depth, num_threads, start_url, queue, unfinished,
                   visited, dbVisited, dbLinks, total_links_processed,
                   stop_event, crawl_pc, cur_url, cur_depth, links, todo,
                   seeds, firstCommit, visited0, marks>>

\* A LifoQueue: get returns the item that was put last.
Dequeue_lifo(w) ==
    /\ wpc[w] = "get"
    /\ queue # << >>
    /\ cur_url' = [cur_url EXCEPT ![w] = queue[Len(queue)][1]]
    /\ cur_depth' = [cur_depth EXCEPT ![w] = queue[Len(queue)][2]]
    /\ queue' = SubSeq(queue, 1, Len(queue) - 1)
    /\ wpc' = [wpc EXCEPT ![w] = "check"]
    /\ UNCHANGED <<max_depth, num_threads, start_url, unfinished, visited,
                   dbVisited, dbLinks, total_links_processed, stop_event,
                   crawl_pc, links, todo, seeds, firstCommit, visited0,
                   marks>>

\* line 113: queue.get(timeout=1) returns the head of the queue.
Dequeue(w) ==
    /\ wpc[w] = "get"
    /\ queue # << >>
    /\ cur_url' = [cur_url EXCEPT ![w] = Head(queue)[1]]
    /\ cur_depth' = [cur_depth EXCEPT ![w] = Head(queue)[2]]
    /\ queue' = Tail(queue)
    /\ wpc' = [wpc EXCEPT ![w] = "check"]
    /\ UNCHANGED <<max_depth, num_threads, start_url, unfinished, visited,
                   dbVisited, dbLinks, total_links_processed, stop_event,
                   crawl_pc, links, todo, seeds, firstCommit, visited0,
                   marks>>

\* lines 114-115: the get timed out on an empty queue; continue.
GetTimeout(w) ==
    /\ wpc[w] = "get"
    /\ queue = << >>
    /\ wpc' = [wpc EXCEPT ![w] = "loop"]
    /\ UNCHANGED <<max_depth, num_threads, start_url, queue, unfinished,
                   visited, dbVisited, dbLinks, total_links_processed,
                   stop_event, crawl_pc, cur_url, cur_depth, links, todo,
                   seeds, firstCommit, visited0, marks>>

\* The worker lets go of its item and goes back to the top of the loop.
Release(w) ==
    /\ wpc' = [wpc EXCEPT ![w] = "loop"]
    /\ cur_url' = [cur_url EXCEPT ![w] = NoUrl]
    /\ cur_depth' = [cur_depth EXCEPT ![w] = 0]
    /\ links' = [links EXCEPT ![w] = {}]
    /\ todo' = [todo EXCEPT ![w] = {}]

\* Off by one: depth > self.max_depth + 1
DepthExceeded_off(d) == d > max_depth + 1

\* line 116: depth > self.max_depth
DepthExceeded(d) == d > max_depth

\* The item is too deep; continue without task_done.
DropDepth_nodone(w) ==
    /\ wpc[w] = "check"
    /\ DepthExceeded(cur_depth[w])
    /\ Release(w)
    /\ UNCHANGED <<max_depth, num_threads, start_url, queue, unfinished,
                   visited, dbVisited, dbLinks, total_links_processed,
                   stop_event, crawl_pc, seeds, firstCommit, visited0, marks>>

\* lines 116-118: the item is too deep; task_done, continue.
DropDepth(w) ==
    /\ wpc[w] = "check"
    /\ DepthExceeded(cur_depth[w])
    /\ unfinished' = unfinished - 1
    /\ Release(w)
    /\ UNCHANGED <<max_depth, num_threads, start_url, queue, visited,
                   dbVisited, dbLinks, total_links_processed, stop_event,
                   crawl_pc, seeds, firstCommit, visited0, marks>>

\* lines 119-121: the URL is in the mirror; task_done, continue.
DropVisited(w) ==
    /\ wpc[w] = "check"
    /\ ~DepthExceeded(cur_depth[w])
    /\ cur_url[w] \in visited
    /\ unfinished' = unfinished - 1
    /\ Release(w)
    /\ UNCHANGED <<max_depth, num_threads, start_url, queue, visited,
                   dbVisited, dbLinks, total_links_processed, stop_event,
                   crawl_pc, seeds, firstCommit, visited0, marks>>

\* lines 119-124: the URL is not in the mirror; fetch_page is called.
BeginFetch(w) ==
    /\ wpc[w] = "check"
    /\ ~DepthExceeded(cur_depth[w])
    /\ cur_url[w] \notin visited
    /\ wpc' = [wpc EXCEPT ![w] = "fetch"]
    /\ UNCHANGED <<max_depth, num_threads, start_url, queue, unfinished,
                   visited, dbVisited, dbLinks, total_links_processed,
                   stop_event, crawl_pc, cur_url, cur_depth, links, todo,
                   seeds, firstCommit, visited0, marks>>

\* lines 124-125: fetch_page returns the markup, parse_links extracts.
FetchOk(w) ==
    /\ wpc[w] = "fetch"
    /\ links' = [links EXCEPT ![w] = parse_links(PageHrefs(cur_url[w]))]
    /\ wpc' = [wpc EXCEPT ![w] = "save"]
    /\ UNCHANGED <<max_depth, num_threads, start_url, queue, unfinished,
                   visited, dbVisited, dbLinks, total_links_processed,
                   stop_event, crawl_pc, cur_url, cur_depth, todo, seeds,
                   firstCommit, visited0, marks>>

\* The handler records the URL in the mirror although the fetch failed.
FetchFail_marked(w) ==
    /\ wpc[w] = "fetch"
    /\ unfinished' = unfinished - 1
    /\ visited' = visited \cup {cur_url[w]}
    /\ Release(w)
    /\ UNCHANGED <<max_depth, num_threads, start_url, queue, dbVisited,
                   dbLinks, total_links_processed, stop_event, crawl_pc,
                   seeds, firstCommit, visited0, marks>>

\* lines 124, 134-143: fetch_page raises; the handler prints, finally
\* calls task_done, and the loop goes on.
FetchFail(w) ==
    /\ wpc[w] = "fetch"
    /\ unfinished' = unfinished - 1
    /\ Release(w)
    /\ UNCHANGED <<max_depth, num_threads, start_url, queue, visited,
                   dbVisited, dbLinks, total_links_processed, stop_event,
                   crawl_pc, seeds, firstCommit, visited0, marks>>

\* line 126: self.save_links(links)
SaveLinks(w) ==
    /\ wpc[w] = "save"
    /\ dbLinks' = InsertOrIgnoreLinks(dbLinks, links[w])
    /\ wpc' = [wpc EXCEPT ![w] = "mark"]
    /\ UNCHANGED <<max_depth, num_threads, start_url, queue, unfinished,
                   visited, dbVisited, total_links_processed, stop_event,
                   crawl_pc, cur_url, cur_depth, links, todo, seeds,
                   firstCommit, visited0, marks>>

\* line 127: self.mark_visited(current_url, depth)
MarkVisited(w) ==
    /\ wpc[w] = "mark"
    /\ dbVisited' = InsertOrIgnoreVisited(dbVisited, cur_url[w], cur_depth[w])
    /\ visited' = visited \cup {cur_url[w]}
    /\ todo' = [todo EXCEPT ![w] = links[w]]
    /\ wpc' = [wpc EXCEPT ![w] = "push"]
    /\ firstCommit' =
          IF \E c \in firstCommit : c.url = cur_url[w] THEN firstCommit
          ELSE firstCommit \cup {[url |-> cur_url[w], depth |-> cur_depth[w]]}
    /\ marks' = marks + 1
    /\ UNCHANGED <<max_depth, num_threads, start_url, queue, unfinished,
                   dbLinks, total_links_processed, stop_event, crawl_pc,
                   cur_url, cur_depth, links, seeds, visited0>>

\* lines 128-130: one iteration of the for loop, for a link that is not in
\* the mirror: queue.put((link, depth + 1)).
PushLink(w) ==
    /\ wpc[w] = "push"
    /\ \E l \in todo[w] :
          /\ l \notin visited
          /\ queue' = Append(queue, <<l, cur_depth[w] + 1>>)
          /\ unfinished' = unfinished + 1
          /\ todo' = [todo EXCEPT ![w] = @ \ {l}]
    /\ UNCHANGED <<max_depth, num_threads, start_url, visited, dbVisited,
                   dbLinks, total_links_processed, stop_event, crawl_pc, wpc,
                   cur_url, cur_depth, links, seeds, firstCommit, visited0,
                   marks>>

\* lines 128-129: one iteration of the for loop, for a link in the mirror.
SkipLink(w) ==
    /\ wpc[w] = "push"
    /\ \E l \in todo[w] :
          /\ l \in visited
          /\ todo' = [todo EXCEPT ![w] = @ \ {l}]
    /\ UNCHANGED <<max_depth, num_threads, start_url, queue, unfinished,
                   visited, dbVisited, dbLinks, total_links_processed,
                   stop_event, crawl_pc, wpc, cur_url, cur_depth, links,
                   seeds, firstCommit, visited0, marks>>

\* The counter is read and written back without db_lock: the increment is
\* lost when another worker is at the same place.
CountProcessed_lost(w) ==
    /\ wpc[w] = "push"
    /\ todo[w] = {}
    /\ total_links_processed' =
          IF \E v \in Workers \ {w} : wpc[v] = "push" /\ todo[v] = {}
          THEN total_links_processed
          ELSE total_links_processed + 1
    /\ unfinished' = unfinished - 1
    /\ Release(w)
    /\ UNCHANGED <<max_depth, num_threads, start_url, queue, visited,
                   dbVisited, dbLinks, stop_event, crawl_pc, seeds,
                   firstCommit, visited0, marks>>

\* lines 131-133, 142-143: the for loop is over; the counter is incremented
\* under db_lock, then finally calls task_done and the loop goes on.
CountProcessed(w) ==
    /\ wpc[w] = "push"
    /\ todo[w] = {}
    /\ total_links_processed' = total_links_processed + 1
    /\ unfinished' = unfinished - 1
    /\ Release(w)
    /\ UNCHANGED <<max_depth, num_threads, start_url, queue, visited,
                   dbVisited, dbLinks, stop_event, crawl_pc, seeds,
                   firstCommit, visited0, marks>>

worker(w) ==
    \/ EnterGet(w)
    \/ WorkerExit(w)
    \/ Dequeue(w)
    \/ GetTimeout(w)
    \/ DropDepth(w)
    \/ DropVisited(w)
    \/ BeginFetch(w)
    \/ FetchOk(w)
    \/ FetchFail(w)
    \/ SaveLinks(w)
    \/ MarkVisited(w)
    \/ PushLink(w)
    \/ SkipLink(w)
    \/ CountProcessed(w)

\* ---------------------------------------------------------------- crawl()
\* lines 149-152: the next thread is created and started; after the last
\* one the for loop ends and the wait loop of line 154 begins.
StartThread(w) ==
    /\ crawl_pc = "start"
    /\ w <= num_threads
    /\ wpc[w] = "new"
    /\ \A v \in Workers : v < w => wpc[v] # "new"
    /\ wpc' = [wpc EXCEPT ![w] = "loop"]
    /\ crawl_pc' = IF w = num_threads THEN "wait" ELSE "start"
    /\ UNCHANGED <<max_depth, num_threads, start_url, queue, unfinished,
                   visited, dbVisited, dbLinks, total_links_processed,
                   stop_event, cur_url, cur_depth, links, todo, seeds,
                   firstCommit, visited0, marks>>

\* line 154: the condition of the wait loop
QueueEmpty(q) == q = << >>

\* lines 154-155, 159-161: queue.empty() is true, the wait loop ends and
\* the finally block starts joining the threads.
WaitDone ==
    /\ crawl_pc = "wait"
    /\ QueueEmpty(queue)
    /\ crawl_pc' = "join"
    /\ UNCHANGED <<max_depth, num_threads, start_url, queue, unfinished,
                   visited, dbVisited, dbLinks, total_links_processed,
                   stop_event, wpc, cur_url, cur_depth, links, todo, seeds,
                   firstCommit, visited0, marks>>

\* lines 156-158: KeyboardInterrupt inside the try block (while starting
\* threads or in the wait loop): the handler sets stop_event, then the
\* finally block starts joining the threads.
InterruptCaught ==
    /\ crawl_pc \in {"start", "wait"}
    /\ stop_event' = TRUE
    /\ crawl_pc' = "join"
    /\ UNCHANGED <<max_depth, num_threads, start_url, queue, unfinished,
                   visited, dbVisited, dbLinks, total_links_processed, wpc,
                   cur_url, cur_depth, links, todo, seeds, firstCommit,
                   visited0, marks>>

\* lines 159-162: KeyboardInterrupt inside the finally block, in
\* thread.join(): no handler is active, the exception leaves crawl(),
\* the rest of the finally block (conn.close()) is skipped.
InterruptInJoin ==
    /\ crawl_pc = "join"
    /\ crawl_pc' = "raised"
    /\ UNCHANGED <<max_depth, num_threads, start_url, queue, unfinished,
                   visited, dbVisited, dbLinks, total_links_processed,
                   stop_event, wpc, cur_url, cur_depth, links, todo, seeds,
                   firstCommit, visited0, marks>>

\* lines 161-165: every started thread has ended, so every join returns;
\* the elapsed time is printed and the connection is closed.
JoinAndClose ==
    /\ crawl_pc = "join"
    /\ \A w \in Workers : wpc[w] \in {"new", "exited"}
    /\ crawl_pc' = "closed"
    /\ UNCHANGED <<max_depth, num_threads, start_url, queue, unfinished,
                   visited, dbVisited, dbLinks, total_links_processed,
                   stop_event, wpc, cur_url, cur_depth, links, todo, seeds,
                   firstCommit, visited0, marks>>

crawl ==
    \/ \E w \in Workers : StartThread(w)
    \/ WaitDone
    \/ InterruptCaught
    \/ InterruptInJoin
    \/ JoinAndClose

\* line 85: the mirror a new Crawler starts with
InitialMirror(store) == {}

\* lines 225-231, 78-88: the program is run again, with any seed, after
\* the earlier run has ended (crawl() returned, or the process that was left
\* by the exception was ended).  initialize_database opens the existing
\* file: both tables keep their rows; everything else is new.  The tables
\* only grow, so the runs need no bound.
Restart ==
    /\ crawl_pc \in {"closed", "raised"}
    /\ \E seed \in Seeds :
          /\ start_url' = seed
          /\ queue' = << <<seed, 0>> >>
          /\ seeds' = seeds \cup {seed}
    /\ unfinished' = 1
    /\ visited' = InitialMirror(dbVisited)
    /\ total_links_processed' = 0
    /\ stop_event' = FALSE
    /\ crawl_pc' = "start"
    /\ wpc' = [w \in Workers |-> "new"]
    /\ cur_url' = [w \in Workers |-> NoUrl]
    /\ cur_depth' = [w \in Workers |-> 0]
    /\ links' = [w \in Workers |-> {}]
    /\ todo' = [w \in Workers |-> {}]
    /\ visited0' = VisitedUrls
    /\ marks' = 0
    /\ UNCHANGED <<max_depth, num_threads, dbVisited, dbLinks, firstCommit>>

Next ==
    \/ \E w \in Workers : worker(w)
    \/ crawl
    \/ Restart

Spec == Init /\ [][Next]_vars

\* One run of the program: the steps of its threads, and no new run.
RunNext ==
    \/ \E w \in Workers : worker(w)
    \/ crawl

\* One run under the scheduling the code relies on: every started thread
\* keeps running (the operating system schedules each worker, and
\* fetch_page returns or raises), and the main thread keeps running.  A
\* KeyboardInterrupt is up to the user and is never forced.
FairSpec ==
    /\ Init
    /\ [][RunNext]_vars
    /\ \A w \in Workers : WF_vars(worker(w))
    /\ WF_vars(\E w \in Workers : StartThread(w))
    /\ WF_vars(WaitDone)
    /\ WF_vars(JoinAndClose)

\* Crawler(start_url, max_depth, num_threads) with any parameters up to the
\* largest, on an empty store file.
QuietInit ==
    /\ max_depth \in 1 .. MaxDepth
    /\ num_threads \in 1 .. MaxThreads
    /\ NewCrawler

\* A worker step in a run where fetch_page never fails and the stop flag
\* is never set.
QuietWorker(w) ==
    \/ EnterGet(w)
    \/ Dequeue(w)
    \/ GetTimeout(w)
    \/ DropDepth(w)
    \/ DropVisited(w)
    \/ BeginFetch(w)
    \/ FetchOk(w)
    \/ SaveLinks(w)
    \/ MarkVisited(w)
    \/ PushLink(w)
    \/ SkipLink(w)
    \/ CountProcessed(w)

\* A step of a run without fetch failure and without KeyboardInterrupt.
QuietNext ==
    \/ \E w \in Workers : QuietWorker(w)
    \/ \E w \in Workers : StartThread(w)
    \/ WaitDone

\* One run on an empty store, with no fetch failure and no stop signal.
QuietSpec == QuietInit /\ [][QuietNext]_vars

\* ---------------------------------------------------------------- claims
\* Positions of a worker between passing the mirror check of line 119 and
\* the end of its step.
PastCheckPcs == {"fetch", "save", "mark", "push"}

\* A KeyboardInterrupt has arrived in this run.
Interrupted == stop_event \/ crawl_pc = "raised"

\* C1: no duplicate fetch.  Two workers never both pass the "not visited"
\* check of line 119 for the same URL (and so never both fetch it and both
\* push its children).
NoDuplicateFetch ==
    \A w1, w2 \in Workers :
        (w1 # w2 /\ wpc[w1] \in PastCheckPcs /\ wpc[w2] \in PastCheckPcs)
            => cur_url[w1] # cur_url[w2]

\* C2: depth bound.  No worker has started a fetch for an item deeper than
\* max_depth, and no Visited Record is deeper than max_depth.
DepthBound ==
    /\ \A w \in Workers : wpc[w] \in PastCheckPcs => cur_depth[w] <= max_depth
    /\ \A r \in dbVisited : r.depth <= max_depth

\* C2 witness: a worker holds a dequeued item deeper than max_depth while
\* a record at depth max_depth has been written.
DepthBoundWitness ==
    /\ \E w \in Workers : wpc[w] = "check" /\ cur_depth[w] > max_depth
    /\ \E r \in dbVisited : r.depth = max_depth

\* C3: natural completion.  If no KeyboardInterrupt ever arrives, crawl()
\* eventually returns (all workers joined, connection closed).
NaturalCompletion == ([]~Interrupted) => <>(crawl_pc = "closed")

\* C4: completion detection.  The wait loop of crawl() is left for the
\* join (without an interrupt) only when the queue is empty and no worker
\* holds an item.
CompletionOnlyWhenIdle ==
    [][(crawl_pc = "wait" /\ crawl_pc' = "join" /\ ~stop_event')
          => (queue = << >> /\ InFlight = {})]_vars

IdempotentVisitation ==
    /\ \A r1, r2 \in dbVisited : r1.url = r2.url => r1 = r2
    /\ dbVisited = firstCommit

\* C6 witness: mark_visited has just returned for a URL whose record was
\* committed by an earlier call with another depth.
IdempotentVisitationWitness ==
    \E w \in Workers :
        /\ wpc[w] = "push"
        /\ \E r \in dbVisited : r.url = cur_url[w] /\ r.depth # cur_depth[w]

\* C7: mirror consistency.  A URL is in the in-memory mirror if and only
\* if it has a Visited Record.
MirrorConsistency == visited = VisitedUrls

\* C8: restart dedup.  No URL that had a Visited Record when the run
\* started is fetched in the run.
RestartDedup ==
    \A w \in Workers : wpc[w] = "fetch" => cur_url[w] \notin visited0

\* The cancellation has completed: the stop flag is set, every started
\* worker has exited, and crawl() has joined them and closed the store.
Cancelled ==
    /\ stop_event
    /\ \A w \in Workers : wpc[w] \in {"new", "exited"}
    /\ crawl_pc = "closed"

\* A KeyboardInterrupt has arrived after the one that set the stop flag.
SecondInterrupt == stop_event /\ crawl_pc = "raised"

\* C9: cancellation liveness.  Once a KeyboardInterrupt has arrived (in the
\* wait loop or while joining), the stop flag is set, every started worker
\* exits, and crawl() joins them and closes the store.  Stated for the
\* runs with one interrupt: a run in which a second one arrives is not held
\* against the claim.
CancellationLiveness == Interrupted ~> (Cancelled \/ SecondInterrupt)

\* C10: cancellation stops work.  Once the stop flag is set, no item is
\* dequeued or pushed, no fetch is started and no record is written.
CancellationStopsWork ==
    [][(stop_event /\ ~Restart) =>
          /\ queue' = queue
          /\ dbVisited' = dbVisited
          /\ dbLinks' = dbLinks
          /\ \A w \in Workers : ~(wpc[w] = "check" /\ wpc'[w] = "fetch")
      ]_vars

\* C11: append-only stores.  In every step, cancellation and failed items
\* included, every Visited Record stays with its depth, no record of a URL
\* that already has one is added, and every Discovered-Link Record stays.
AppendOnlyStores ==
    [][/\ dbVisited \subseteq dbVisited'
       /\ \A r \in dbVisited' :
             (\E q \in dbVisited : q.url = r.url) => r \in dbVisited
       /\ dbLinks \subseteq dbLinks'
      ]_vars

\* C11 witness: in a run that started on a non-empty store and was
\* cancelled, mark_visited was called for a URL whose record an earlier run
\* committed with another depth, and the link table holds records.
AppendOnlyStoresWitness ==
    /\ stop_event
    /\ dbLinks # {}
    /\ \E w \in Workers :
          /\ wpc[w] = "push"
          /\ cur_url[w] \in visited0
          /\ \E r \in dbVisited : r.url = cur_url[w] /\ r.depth # cur_depth[w]

\* The URLs within n link hops of u, following the links parse_links
\* extracts from each page.
RECURSIVE Within(_, _)
Within(u, n) ==
    IF n = 0 THEN {u}
    ELSE LET near == Within(u, n - 1)
         IN  near \cup UNION {parse_links(PageHrefs(v)) : v \in near}

\* The URLs discoverable from the seed of the run within max_depth.
Discoverable == Within(start_url, max_depth)

\* C12: processed-count bound.  total_links_processed is at most the number
\* of distinct URLs discoverable from the seed within max_depth.
ProcessedCountBound == total_links_processed <= Cardinality(Discoverable)

\* C13: fetch failure is dropped locally.  A step in which a worker leaves
\* the fetch without a page changes neither table, nor the mirror, nor the
\* counter, nor the queue (no child is pushed, the item is not put back),
\* and leaves the worker at the top of its loop, not terminated.
FetchFailureDropped ==
    [][\A w \in Workers :
          (wpc[w] = "fetch" /\ wpc'[w] \notin {"fetch", "save"} /\ ~Restart)
              => /\ dbVisited' = dbVisited
                 /\ visited' = visited
                 /\ dbLinks' = dbLinks
                 /\ total_links_processed' = total_links_processed
                 /\ queue' = queue
                 /\ wpc'[w] = "loop"
                 /\ cur_url'[w] = NoUrl
      ]_vars

\* C13 witness: the seed A was processed and both of its children were
\* dequeued and ended without being marked or counted (their fetches
\* failed: neither was too deep nor in the mirror), and a worker has gone
\* on to the next get.
FetchFailureDroppedWitness ==
    /\ start_url = "A"
    /\ visited0 = {}
    /\ visited = {"A"}
    /\ total_links_processed = 1
    /\ unfinished = 0
    /\ \E w \in Workers : wpc[w] = "get"

\* The frontier is drained and no item is in flight.
Drained == queue = << >> /\ InFlight = {}

\* The run of the end-to-end scenario: seed A, max_depth = 1; page A links
\* to B, to C and to a Special: page, and B and C have article links of
\* their own.
Scenario == start_url = "A" /\ max_depth = 1

\* No item of depth 2 is being fetched or processed.
NoDepth2Fetch == \A w \in Workers : wpc[w] \in PastCheckPcs => cur_depth[w] < 2

\* The Visited Store is exactly A at depth 0, B and C at depth 1.
ScenarioVisited ==
    dbVisited = {[url |-> "A", depth |-> 0], [url |-> "B", depth |-> 1],
                 [url |-> "C", depth |-> 1]}

\* C14 as stated: in the scenario no depth-2 item is ever fetched, and once
\* drained the Visited Store is exactly {A@0, B@1, C@1} and the
\* Discovered-Link Store is exactly {B, C}.
EndToEndScenario ==
    Scenario =>
        /\ NoDepth2Fetch
        /\ Drained => (ScenarioVisited /\ dbLinks = {"B", "C"})

\* C14 amended: in the scenario no depth-2 item is ever fetched, and once
\* drained the Visited Store is exactly {A@0, B@1, C@1} and the
\* Discovered-Link Store holds exactly the links extracted from the three
\* processed pages: B and C, and the article links of B and of C.
EndToEndScenarioAllLinks ==
    Scenario =>
        /\ NoDepth2Fetch
        /\ Drained =>
              /\ ScenarioVisited
              /\ {"B", "C"} \subseteq dbLinks
              /\ dbLinks = UNION {parse_links(PageHrefs(u)) :
                                     u \in {"A", "B", "C"}}

\* C14 witness: the scenario has run to the end with two workers; the
\* three pages were processed and the depth-2 items were dropped.
EndToEndScenarioWitness ==
    /\ Scenario
    /\ num_threads = 2
    /\ Drained
    /\ total_links_processed = 3
    /\ dbLinks # {"B", "C"}

FragmentCollapse ==
    \A w \in Workers :
        wpc[w] = "save" =>
            /\ cur_url[w] = "D" => links[w] = {"B"}
            /\ \A h \in PageHrefs(cur_url[w]) :
                  (h.ns = "wiki" /\ h.frag # "") => h.target \in links[w]

\* Positions of a worker at which it is about to use the connection
\* (save_links, mark_visited).
StorePcs == {"save", "mark"}

\* C17: store lifecycle.  Every execution of crawl() closes the connection
\* (once: it stays closed), the close happens only when every started
\* worker has exited, and no worker is about to use the connection once it
\* is closed.  A run in which a KeyboardInterrupt arrives while crawl() is
\* joining is not held against the claim.
StoreLifecycle ==
    /\ <>[](crawl_pc \in {"closed", "raised"})
    /\ [](crawl_pc = "closed" =>
             /\ \A w \in Workers : wpc[w] \in {"new", "exited"}
             /\ \A w \in Workers : wpc[w] \notin StorePcs)

\* The workers that have marked their item visited and are pushing its
\* children (lines 128-130), before the counter is incremented.
Pushing == {w \in Workers : wpc[w] = "push"}

\* C18: no lost counter updates.  total_links_processed equals the number
\* of items of this run that went through fetch, parse_links, save_links
\* and mark_visited, less those whose children are still being pushed;
\* items dropped for depth, as duplicates or by a failure never reach
\* mark_visited and are not counted.
NoLostCounterUpdates ==
    total_links_processed + Cardinality(Pushing) = marks

\* C18 witness: two workers have finished pushing the children of their
\* items and are both about to increment the counter, which already counts
\* an earlier item.
NoLostCounterUpdatesWitness ==
    /\ total_links_processed >= 1
    /\ \E w, v \in Workers :
          /\ w # v
          /\ wpc[w] = "push" /\ todo[w] = {}
          /\ wpc[v] = "push" /\ todo[v] = {}

\* C19: mark_done discipline.  Every dequeued item is marked done exactly
\* once, when its step ends (on the success path after the children were
\* pushed): the queue's count of unfinished items equals the number of
\* queued items plus the number of items in flight, and is never negative.
MarkDoneDiscipline ==
    /\ unfinished = Len(queue) + Cardinality(InFlight)
    /\ ~(unfinished < 0)

\* C19 witness: items have been marked done on the success path, and now
\* an item is queued while two are in flight, one of them with its children
\* pushed and its task_done still to come.
MarkDoneDisciplineWitness ==
    /\ total_links_processed >= 1
    /\ Len(queue) >= 1
    /\ Cardinality(InFlight) = 2
    /\ \E w \in Workers : wpc[w] = "push" /\ todo[w] = {} /\ links[w] # {}

\* The length of the shortest link path from the seed of the run to u
\* (for a URL that some path reaches).
Dist(u) ==
    CHOOSE n \in 0 .. Cardinality(URLs) :
        /\ u \in Within(start_url, n)
        /\ \A m \in 0 .. n - 1 : u \notin Within(start_url, m)

\* C20: single-worker breadth-first depth.  With exactly one worker, the
\* FIFO queue starting from (seed, 0), an empty store and no fetch failure,
\* the depth of every Visited Record is the length of the shortest link
\* path from the seed to its URL, and every item in the queue or held by
\* the worker has a depth between 0 and max_depth + 1.
SingleWorkerBfsDepth ==
    num_threads = 1 =>
        /\ \A r \in dbVisited : r.depth = Dist(r.url)
        /\ \A i \in 1 .. Len(queue) :
              ~(queue[i][2] < 0) /\ queue[i][2] <= max_depth + 1
        /\ \A w \in InFlight :
              ~(cur_depth[w] < 0) /\ cur_depth[w] <= max_depth + 1

\* C20 witness: the single worker has drained the frontier from seed A;
\* D was reached over C and recorded at depth 2, and C was recorded at
\* depth 1 although B's step had put (C, 2) on the queue as well.
SingleWorkerBfsDepthWitness ==
    /\ num_threads = 1
    /\ start_url = "A"
    /\ Drained
    /\ [url |-> "C", depth |-> 1] \in dbVisited
    /\ [url |-> "D", depth |-> 2] \in dbVisited

====
